---- MODULE Spec2Model ----
(***************************************************************************)
(* The threaded serial port of LFLib.py: class sPort, its process-wide     *)
(* Buffer, the reader threads it starts, the Tk event queue it posts to    *)
(* and the reconnect logic.                                                *)
(***************************************************************************)
EXTENDS Integers, Sequences, FiniteSets, TLC

\* ------------------------------------------------------------------ bounds
\* largest capacity a caller passes to start(maxSize)
MaxCap == 3
\* most callbacks pending in the Tk event queue (window.after(0, ...))
MaxQueue == 2
\* most reader threads ever started (start() and reopen() each start one)
MaxReaders == 2
\* most bytes received in all, in the specification that keeps the history
MaxHist == 4

\* ------------------------------------------------------------------ bytes
\* ord("\n"), the character readL and clearBuffer compare with
LF == 10
\* Buffer.size as the class body sets it
DefaultSize == 4096

\* the values terminatorV takes: "\n" (the default) and ";"
Terminators == {LF, 59}

\* The bytes chunks are made of: "a", "\n", ";", and 0xC3 0xA9, the UTF-8
\* encoding of U+00E9; 0xA9 alone is no UTF-8.
\* the chunks the transport delivers
Chunks == {<<97>>, <<LF>>, <<59>>, <<169>>, <<195, 169>>}

\* the chunks the transport delivers where the history is kept: "a", "bc"
FifoChunks == {<<97>>, <<98, 99>>}

\* ------------------------------------------------------------ pure helpers
\* s[a:b] of Python, for 0 <= a and any b
Slice(s, a, b) ==
    LET hi == IF b > Len(s) THEN Len(s) ELSE b
    IN  IF a >= hi THEN <<>> ELSE SubSeq(s, a + 1, hi)

\* bytes.decode() is UTF-8 and strict: the number of bytes the character
\* starting at s[i] takes, 0 when no valid character starts there
CharLen(s, i) ==
    LET b == s[i]
        cont(k) == k <= Len(s) /\ s[k] >= 128 /\ s[k] <= 191
        in(k, lo, hi) == k <= Len(s) /\ s[k] >= lo /\ s[k] <= hi
    IN  IF b < 128 THEN 1
        ELSE IF b >= 194 /\ b <= 223 THEN (IF cont(i + 1) THEN 2 ELSE 0)
        ELSE IF b = 224 THEN (IF in(i + 1, 160, 191) /\ cont(i + 2) THEN 3 ELSE 0)
        ELSE IF b = 237 THEN (IF in(i + 1, 128, 159) /\ cont(i + 2) THEN 3 ELSE 0)
        ELSE IF b >= 225 /\ b <= 239 THEN (IF cont(i + 1) /\ cont(i + 2) THEN 3 ELSE 0)
        ELSE IF b = 240 THEN (IF in(i + 1, 144, 191) /\ cont(i + 2) /\ cont(i + 3) THEN 4 ELSE 0)
        ELSE IF b = 244 THEN (IF in(i + 1, 128, 143) /\ cont(i + 2) /\ cont(i + 3) THEN 4 ELSE 0)
        ELSE IF b >= 241 /\ b <= 243 THEN (IF cont(i + 1) /\ cont(i + 2) /\ cont(i + 3) THEN 4 ELSE 0)
        ELSE 0

\* the code point of the character of n bytes starting at s[i]
CodePoint(s, i, n) ==
    IF n = 1 THEN s[i]
    ELSE IF n = 2 THEN (s[i] - 192) * 64 + (s[i + 1] - 128)
    ELSE IF n = 3 THEN (s[i] - 224) * 4096 + (s[i + 1] - 128) * 64 + (s[i + 2] - 128)
    ELSE (s[i] - 240) * 262144 + (s[i + 1] - 128) * 4096
         + (s[i + 2] - 128) * 64 + (s[i + 3] - 128)

\* bytes.decode(): [ok |-> TRUE, text |-> the code points] or, where Python
\* raises UnicodeDecodeError, [ok |-> FALSE, text |-> <<>>]
RECURSIVE DecodeFrom(_, _)
DecodeFrom(s, i) ==
    IF i > Len(s) THEN [ok |-> TRUE, text |-> <<>>]
    ELSE LET n == CharLen(s, i)
         IN  IF n = 0 THEN [ok |-> FALSE, text |-> <<>>]
             ELSE LET rest == DecodeFrom(s, i + n)
                  IN  IF rest.ok
                      THEN [ok |-> TRUE, text |-> <<CodePoint(s, i, n)>> \o rest.text]
                      ELSE rest

Decode(s) == DecodeFrom(s, 1)

\* ----------------------------------------------------------- return values
\* What a call hands back.  The three sentinels are Python strings, a line is
\* a Python string too and readB's data is bytes; kind keeps them apart.
NoneVal == [kind |-> "None", val |-> <<>>]
NotEnoughData == [kind |-> "not enough data", val |-> <<>>]
NotAString == [kind |-> "Read data isn't a string", val |-> <<>>]
BytesVal(b) == [kind |-> "bytes", val |-> b]
TextVal(t) == [kind |-> "str", val |-> t]
Raised(e) == [kind |-> e, val |-> <<>>]

\* str.encode() is UTF-8: the bytes of one code point
EncodeChar(c) ==
    IF c < 128 THEN <<c>>
    ELSE IF c < 2048 THEN <<192 + (c \div 64), 128 + (c % 64)>>
    ELSE IF c < 65536
         THEN <<224 + (c \div 4096), 128 + ((c \div 64) % 64), 128 + (c % 64)>>
         ELSE <<240 + (c \div 262144), 128 + ((c \div 4096) % 64),
                128 + ((c \div 64) % 64), 128 + (c % 64)>>

RECURSIVE Encode(_)
Encode(t) == IF t = <<>> THEN <<>> ELSE EncodeChar(Head(t)) \o Encode(Tail(t))

\* ------------------------------------------------------ the buffer's code
\* readStoreBuffer: the content after a chunk was handed over
StoreMutant(buf, data, cap) ==
    IF Len(buf) + Len(data) <= cap THEN buf \o data ELSE Slice(buf \o data, 0, cap)

Store(buf, data, cap) ==
    IF Len(buf) + Len(data) <= cap THEN buf \o data ELSE buf

\* readStoreBuffer's call self.handleData(): the function called and the
\* len(Buffer.content) it finds
Invocation(fn, buf) == [fn |-> fn, len |-> Len(buf)]

\* a readStoreBuffer that calls self.handleData() first and appends after
HandleFirst(fn, buf, data, cap) == <<Invocation(fn, buf)>>

\* the calls of handleData one run of readStoreBuffer(data) makes: one, after
\* the append or the discard
Handle(fn, buf, data, cap) == <<Invocation(fn, Store(buf, data, cap))>>

\* the calls of handleData the pending readStoreBuffer callbacks make when
\* the Tk event loop runs them
RECURSIVE PumpHandle(_, _, _, _)
PumpHandle(fn, buf, q, cap) ==
    IF q = <<>> THEN <<>>
    ELSE Handle(fn, buf, Head(q), cap)
         \o PumpHandle(fn, Store(buf, Head(q), cap), Tail(q), cap)

\* the Tk event loop runs the pending readStoreBuffer callbacks in the order
\* they were posted
RECURSIVE Pump(_, _, _)
Pump(buf, q, cap) ==
    IF q = <<>> THEN buf ELSE Pump(Store(buf, Head(q), cap), Tail(q), cap)

\* readL's loop: the lowest index (from 1) holding "\n", 0 when there is none
FirstNewLine(buf) ==
    LET hits == {i \in 1..Len(buf) : buf[i] = LF}
    IN  IF hits = {} THEN 0 ELSE CHOOSE i \in hits : \A j \in hits : i <= j

\* clearBuffer's loop: the highest index (from 1) holding "\n", 0 when none
LastNewLine(buf) ==
    LET hits == {i \in 1..Len(buf) : buf[i] = LF}
    IN  IF hits = {} THEN 0 ELSE CHOOSE i \in hits : \A j \in hits : i >= j

\* readB: what it returns and what it leaves
ReadBShrinks(buf, n) ==
    IF Len(buf) < n THEN [ret |-> NotEnoughData, content |-> <<>>]
    ELSE [ret |-> BytesVal(Slice(buf, 0, n)), content |-> Slice(buf, n, Len(buf))]

ReadBTail(buf, n) ==
    IF Len(buf) < n THEN [ret |-> NotEnoughData, content |-> buf]
    ELSE [ret |-> BytesVal(Slice(buf, Len(buf) - n, Len(buf))),
          content |-> Slice(buf, 0, Len(buf) - n)]

ReadBCode(buf, n) ==
    IF Len(buf) < n THEN [ret |-> NotEnoughData, content |-> buf]
    ELSE [ret |-> BytesVal(Slice(buf, 0, n)), content |-> Slice(buf, n, Len(buf))]

\* readL: what it returns and what it leaves
ReadLCode(buf) ==
    LET i == FirstNewLine(buf)
    IN  IF i = 0 THEN [ret |-> NotEnoughData, content |-> buf]
        ELSE LET d == Decode(Slice(buf, 0, i - 1))
             IN  [ret |-> IF d.ok THEN TextVal(d.text) ELSE NotAString,
                  content |-> Slice(buf, i, Len(buf))]

\* clearBuffer, after its flush of the pending events
ClearCode(buf, clearLine) ==
    IF clearLine
    THEN LET i == LastNewLine(buf)
         IN  IF i = 0 THEN buf ELSE Slice(buf, i, Len(buf))
    ELSE <<>>

\* ---------------------------------------------------- the transport's side
\* Buffer.port before any constructor ran
NoPort == [dev |-> "None", by |-> "None"]

\* the names a caller opens: "Auto" and a device of its own
Names == {"Auto", "ttyUSB7"}

\* len(serial.tools.list_ports.comports())
PortCounts == 0..2

\* the module binds no name Serial: it imports serial, and ReaderThread and
\* Protocol from serial.threaded
SerialDefined == FALSE

\* serPort(name) as __init__ calls it (no command, question or final): the
\* opened port, or NoPort where it raises SerialDisconnect.  n is the number
\* of ports listed, ok whether serial.Serial(...) opens.
SerPort(name, n, ok, who) ==
    IF name = "Auto"
    THEN IF n > 1 /\ ok THEN [dev |-> "ports[1]", by |-> who] ELSE NoPort
    ELSE IF ok THEN [dev |-> name, by |-> who] ELSE NoPort

\* ------------------------------------------------- serPort with its probes
\* most ports comports() lists in a call of serPort with its probes
MaxPorts == 4

\* a listed port: Serial(...) on it raises SerialException ("noopen"), or it
\* opens and every write and readline on it raises SerialException ("noio"),
\* or it opens and works ("ok"); reply is the line it sends back to question
DevStates == {"ok", "noopen", "noio"}
Replies == {"ok", "no"}
Devices == [state : DevStates, reply : Replies]
DevLists == UNION {[1..n -> Devices] : n \in 0..MaxPorts}

\* the optional arguments command, question, answer and final ("None": not
\* given)
Probes ==
    [command : {"None", "init"}, question : {"None", "id?"},
     answer : {"None", "ok"}, final : {"None", "go"}]

\* what a call of serPort comes to: the port it returns or the
\* SerialDisconnect it raises, with the calls it made on the ports, in order
Returned(p, io) == [kind |-> "port", val |-> <<p>>, io |-> io]
Disconnect(io) == [kind |-> "SerialDisconnect", val |-> <<>>, io |-> io]

\* the statements after the while loop: port is the port opened last
AfterLoop(devs, q, correctPort, port, io) ==
    IF ~correctPort THEN Disconnect(io)
    ELSE IF q.final # "None"
         THEN IF devs[port + 1].state = "noio"
              THEN Disconnect(Append(io, <<"final", port>>))
              ELSE Returned(port, Append(io, <<"final", port>>))
         ELSE Returned(port, io)

\* a loop that takes up its scan at ports[0]
RECURSIVE ProbeLoopFromZero(_, _, _, _, _, _)
ProbeLoopFromZero(devs, q, portNum, correctPort, port, io) ==
    LET k == portNum - 1
    IN  IF ~correctPort /\ k < Len(devs)
        THEN LET d == devs[k + 1]
                 io1 == Append(io, <<"open", k>>)
                 io2 == IF q.command # "None"
                        THEN Append(io1, <<"command", k>>) ELSE io1
                 io3 == IF q.question # "None"
                        THEN Append(io2, <<"question", k>>) ELSE io2
             IN  IF d.state = "noopen" THEN Disconnect(io1)
                 ELSE IF q.command # "None" /\ d.state = "noio"
                 THEN Disconnect(io2)
                 ELSE IF q.question # "None" /\ d.state = "noio"
                 THEN Disconnect(io3)
                 ELSE ProbeLoopFromZero(devs, q, portNum + 1,
                          q.question = "None" \/ d.reply = q.answer, k, io3)
        ELSE AfterLoop(devs, q, correctPort, port, io)

\* the while loop of serPort and what follows it, from portNum on: ports[k]
\* is devs[k + 1]
RECURSIVE ProbeLoop(_, _, _, _, _, _)
ProbeLoop(devs, q, portNum, correctPort, port, io) ==
    IF ~correctPort /\ portNum < Len(devs)
    THEN LET d == devs[portNum + 1]
             io1 == Append(io, <<"open", portNum>>)
             io2 == IF q.command # "None"
                    THEN Append(io1, <<"command", portNum>>) ELSE io1
             io3 == IF q.question # "None"
                    THEN Append(io2, <<"question", portNum>>) ELSE io2
         IN  IF d.state = "noopen" THEN Disconnect(io1)
             ELSE IF q.command # "None" /\ d.state = "noio"
             THEN Disconnect(io2)
             ELSE IF q.question # "None" /\ d.state = "noio"
             THEN Disconnect(io3)
             ELSE ProbeLoop(devs, q, portNum + 1,
                      q.question = "None" \/ d.reply = q.answer, portNum, io3)
    ELSE AfterLoop(devs, q, correctPort, port, io)

\* serPort(name, command, question, answer, final) while comports() lists
\* devs and serial.Serial(name) on a named port opens or does not
SerPortCode(name, devs, namedOpens, q) ==
    IF name = "Auto"
    THEN IF Len(devs) > 1
         THEN ProbeLoop(devs, q, 1, FALSE, 0, <<>>)
         ELSE Disconnect(<<>>)
    ELSE IF namedOpens
         THEN Returned(name, <<<<"open", name>>>>)
         ELSE Disconnect(<<<<"open", name>>>>)

\* reopen(): "opened", "retry" (window.after(1, self.reopen)) or "NameError"
ReopenOutcome(n, ok) ==
    IF n > 1
    THEN IF ~SerialDefined THEN "NameError"
         ELSE IF ok THEN "opened" ELSE "retry"
    ELSE "retry"

\* ------------------------------------------------------------------ state
VARIABLES
    content,       \* Buffer.content
    size,          \* Buffer.size
    disconnected,  \* Buffer.disconnected
    port,          \* Buffer.port
    terminator,    \* Buffer.terminator
    handleData,    \* sPort.handleData
    readers,       \* the ReaderThreads started so far, in order
    queue,         \* the data of the readStoreBuffer callbacks Tk holds
    timers,        \* the number of window.after(1, self.reopen) timers pending
    fg,            \* where the foreground is: <<>>, or the write it is in
    call,          \* the last call made on the foreground
    ret,           \* what that call returned or raised
    sent,          \* what that call handed to port.write: <<port, data>> or <<>>
    invoked,       \* the calls of handleData that call made, in order
    arrivals,      \* history: the chunks data_received got, in order
    verdicts,      \* history: per chunk handed to readStoreBuffer, whether it was kept
    returned       \* history: the bytes readB returned, in order

bufVars == <<content, size, terminator, handleData>>
linkVars == <<disconnected, port, readers, timers>>
obsVars == <<call, ret, sent, invoked>>
histVars == <<arrivals, verdicts, returned>>
vars == <<content, size, disconnected, port, terminator, handleData, readers,
          queue, timers, fg, call, ret, sent, invoked, arrivals, verdicts,
          returned>>

\* the class bodies of Buffer and sPort; no thread, nothing pending
Init ==
    /\ content = <<>>
    /\ size = DefaultSize
    /\ disconnected = FALSE
    /\ port = NoPort
    /\ terminator = LF
    /\ handleData = "dummy"
    /\ readers = <<>>
    /\ queue = <<>>
    /\ timers = 0
    /\ fg = <<>>
    /\ call = [op |-> "none", arg |-> <<>>]
    /\ ret = NoneVal
    /\ sent = <<>>
    /\ invoked = <<>>
    /\ arrivals = <<>>
    /\ verdicts = <<>>
    /\ returned = <<>>

\* a method of an sPort object can be called once a constructor has returned,
\* and the foreground runs one call at a time
CanCall == fg = <<>> /\ port # NoPort

\* a new ReaderThread on serial s, not yet running
NewReader(s, origin) == [serial |-> s, pc |-> "start", origin |-> origin]

\* -------------------------------------------------- calls on the foreground
\* sPort(name, terminatorV) called by the application, while n ports are
\* listed and serial.Serial(...) opens or does not (ok)
Construct(name, t, n, ok) ==
    /\ fg = <<>>
    /\ LET p == SerPort(name, n, ok, "caller")
       IN  IF p = NoPort
           THEN /\ ret' = Raised("SerialDisconnect")
                /\ UNCHANGED <<port, terminator>>
           ELSE /\ ret' = NoneVal
                /\ port' = p
                /\ terminator' = t
    /\ call' = [op |-> "sPort", arg |-> <<>>]
    /\ sent' = <<>>
    /\ invoked' = <<>>
    /\ UNCHANGED <<content, size, handleData, disconnected, readers, timers,
                   queue, fg, histVars>>

\* start(maxSize, handleFunc)
Start(maxSize, handleFunc) ==
    /\ CanCall
    /\ Len(readers) < MaxReaders
    /\ handleData' = IF handleFunc # "None" THEN handleFunc ELSE handleData
    /\ size' = maxSize
    /\ readers' = Append(readers, NewReader(port, "start"))
    /\ call' = [op |-> "start", arg |-> <<>>]
    /\ ret' = NoneVal
    /\ sent' = <<>>
    /\ invoked' = <<>>
    /\ UNCHANGED <<content, terminator, disconnected, port, timers, queue,
                   fg, histVars>>

\* readB(bytes)
ReadB(n) ==
    /\ CanCall
    /\ LET r == ReadBCode(content, n)
       IN  /\ content' = r.content
           /\ ret' = r.ret
    /\ call' = [op |-> "readB", arg |-> <<n>>]
    /\ sent' = <<>>
    /\ invoked' = <<>>
    /\ UNCHANGED <<size, terminator, handleData, linkVars, queue, fg>>

\* readL()
ReadL ==
    /\ CanCall
    /\ LET r == ReadLCode(content)
       IN  /\ content' = r.content
           /\ ret' = r.ret
    /\ call' = [op |-> "readL", arg |-> <<>>]
    /\ sent' = <<>>
    /\ invoked' = <<>>
    /\ UNCHANGED <<size, terminator, handleData, linkVars, queue, fg, histVars>>

\* clearBuffer(clearLine): flush_events() lets Tk run the callbacks that are
\* pending, then the buffer is cut.  (A reopen timer that is due and runs in
\* the flush touches none of the buffer: it is the step TkReopen.)
ClearBuffer(clearLine) ==
    /\ CanCall
    /\ content' = ClearCode(Pump(content, queue, size), clearLine)
    /\ queue' = <<>>
    /\ invoked' = PumpHandle(handleData, content, queue, size)
    /\ call' = [op |-> "clearBuffer", arg |-> <<clearLine>>]
    /\ ret' = NoneVal
    /\ sent' = <<>>
    /\ UNCHANGED <<size, terminator, handleData, linkVars, fg, histVars>>

WriteCheckBlind(op, data) ==
    /\ fg = <<>> /\ port # NoPort
    /\ fg' = <<op, data>>
    /\ UNCHANGED <<content, size, terminator, handleData, disconnected, port,
                   readers, timers, call, ret, sent, invoked, queue, arrivals,
                   verdicts, returned>>

\* write(data) and writeL(s) up to the test of Buffer.disconnected
WriteCheck(op, data) ==
    /\ CanCall
    /\ IF disconnected
       THEN /\ call' = [op |-> op, arg |-> <<data>>]
            /\ ret' = NoneVal
            /\ sent' = <<>>
            /\ invoked' = <<>>
            /\ fg' = fg
       ELSE /\ fg' = <<op, data>>
            /\ UNCHANGED obsVars
    /\ UNCHANGED <<bufVars, linkVars, queue, histVars>>

\* the bytes the call hands to port.write
WireBytes(op, data) == IF op = "writeL" THEN Encode(data \o <<LF>>) ELSE data

\* write(data) and writeL(s) from self.buffer.port.write(...) on; an OSError
\* it raises is caught and reported
WriteDo ==
    /\ fg # <<>>
    /\ sent' = <<port, WireBytes(fg[1], fg[2])>>
    /\ invoked' = <<>>
    /\ call' = [op |-> fg[1], arg |-> <<fg[2]>>]
    /\ ret' = NoneVal
    /\ fg' = <<>>
    /\ UNCHANGED <<bufVars, linkVars, queue, histVars>>

\* ---------------------------------------------- callbacks Tk runs when idle
\* readStoreBuffer(data), posted by data_received
TkStore ==
    /\ fg = <<>>
    /\ queue # <<>>
    /\ content' = Store(content, Head(queue), size)
    /\ queue' = Tail(queue)
    /\ invoked' = Handle(handleData, content, Head(queue), size)
    /\ call' = [op |-> "readStoreBuffer", arg |-> <<Head(queue)>>]
    /\ ret' = NoneVal
    /\ sent' = <<>>
    /\ UNCHANGED <<size, terminator, handleData, linkVars, fg>>

\* what reopen() does to the link, on whichever thread runs it: pending is
\* the number of timers that stay pending whatever it does, rs the threads
\* there are
Reopen(outcome, pending, rs) ==
    IF outcome = "opened"
    THEN /\ port' = [dev |-> "ports[1]", by |-> "reopen"]
         /\ disconnected' = FALSE
         /\ readers' = Append(rs, NewReader(port', "reopen"))
         /\ timers' = pending
    ELSE /\ timers' = IF outcome = "retry" THEN pending + 1 ELSE pending
         /\ readers' = rs
         /\ UNCHANGED <<port, disconnected>>

\* reopen() run by its timer; Tk reports an exception it raises and goes on
TkReopen(n, ok) ==
    /\ fg = <<>>
    /\ timers > 0
    /\ LET o == ReopenOutcome(n, ok)
       IN  /\ Reopen(o, timers - 1, readers)
           /\ ret' = IF o = "NameError" THEN Raised("NameError") ELSE NoneVal
    /\ call' = [op |-> "reopen", arg |-> <<>>]
    /\ sent' = <<>>
    /\ invoked' = <<>>
    /\ UNCHANGED <<bufVars, queue, fg, histVars>>

\* ------------------------------------------------------ the reader threads
\* ReaderThread.run() starts by calling its protocol factory, the class
\* sPort: __init__("Auto", "\n") runs on the reader thread.  A SerialDisconnect
\* it raises ends the thread.
ReaderFactory(i, n, ok) ==
    /\ readers[i].pc = "start"
    /\ LET p == SerPort("Auto", n, ok, "reader")
       IN  IF p = NoPort
           THEN /\ readers' = [readers EXCEPT ![i].pc = "failed"]
                /\ UNCHANGED <<port, terminator>>
           ELSE /\ readers' = [readers EXCEPT ![i].pc = "run"]
                /\ port' = p
                /\ terminator' = LF
    /\ UNCHANGED <<content, size, handleData, disconnected, timers, queue, fg,
                   obsVars, histVars>>

\* a data_received that runs readStoreBuffer itself, on the reader thread
DataReceivedDirect(i, data) ==
    /\ readers[i].pc = "run"
    /\ content' = Store(content, data, size)
    /\ UNCHANGED <<size, terminator, handleData, linkVars, queue, fg, obsVars>>

\* data_received(data): window.after(0, self.readStoreBuffer, data)
DataReceived(i, data) ==
    /\ readers[i].pc = "run"
    /\ Len(queue) < MaxQueue
    /\ queue' = Append(queue, data)
    /\ UNCHANGED <<bufVars, linkVars, fg, obsVars>>

\* the read fails and run() calls connection_lost(exc), which runs up to the
\* return of self.reopen(); a NameError out of reopen() leaves
\* connection_lost and ends the thread
ConnectionLost(i, n, ok) ==
    /\ readers[i].pc = "run"
    /\ LET o == ReopenOutcome(n, ok)
       IN  Reopen(o, timers,
                  [readers EXCEPT ![i].pc = IF o = "NameError" THEN "raised"
                                            ELSE "flag"])
    /\ UNCHANGED <<bufVars, queue, fg, obsVars, histVars>>

\* connection_lost: self.buffer.disconnected = True
SetDisconnected(i) ==
    /\ readers[i].pc = "flag"
    /\ disconnected' = TRUE
    /\ readers' = [readers EXCEPT ![i].pc = "done"]
    /\ UNCHANGED <<bufVars, port, timers, queue, fg, obsVars, histVars>>

\* ---------------------------------------------------------- specifications
\* what start() is called with
Capacities == 0..MaxCap
\* what readB() is called with
Counts == 0..(MaxCap + 1)
\* what start() is called with as handleFunc: nothing, or a function onData
Handlers == {"None", "onData"}
\* what write() and writeL() are called with: b"a" and "é"
WriteArgs == {<<"write", <<97>>>>, <<"writeL", <<233>>>>}

\* The link: the constructor, start(), the writes, the reader threads, the
\* loss of the connection and the reopen timer.  No data arrives here; the
\* buffer has the specifications below.
Next ==
    \/ \E name \in Names, n \in PortCounts, ok \in BOOLEAN :
          Construct(name, LF, n, ok)
    \/ \E c \in {1, 2} : Start(c, "None")
    \/ \E w \in WriteArgs : WriteCheck(w[1], w[2])
    \/ WriteDo
    \/ \E n \in PortCounts, ok \in BOOLEAN : TkReopen(n, ok)
    \/ \E i \in 1..Len(readers), n \in PortCounts, ok \in BOOLEAN :
          ReaderFactory(i, n, ok)
    \/ \E i \in 1..Len(readers), n \in PortCounts, ok \in BOOLEAN :
          ConnectionLost(i, n, ok)
    \/ \E i \in 1..Len(readers) : SetDisconnected(i)

Spec == Init /\ [][Next]_vars

\* The state after p = sPort("ttyUSB7"), p.start(c) and the reader thread's
\* construction of its protocol, which opened ports[1]: one reader running.
InitStarted ==
    /\ content = <<>>
    /\ size \in Capacities
    /\ disconnected = FALSE
    /\ port = [dev |-> "ports[1]", by |-> "reader"]
    /\ terminator = LF
    /\ handleData = "dummy"
    /\ readers = <<[serial |-> [dev |-> "ttyUSB7", by |-> "caller"],
                    pc |-> "run", origin |-> "start"]>>
    /\ queue = <<>>
    /\ timers = 0
    /\ fg = <<>>
    /\ call = [op |-> "start", arg |-> <<>>]
    /\ ret = NoneVal
    /\ sent = <<>>
    /\ invoked = <<>>
    /\ arrivals = <<>>
    /\ verdicts = <<>>
    /\ returned = <<>>

\* The buffer: chunks arrive and the foreground reads lines and bytes, clears
\* the buffer, constructs again with another terminator and calls start()
\* again with another capacity.
NextBuffer ==
    \/ \E t \in Terminators, ok \in BOOLEAN : Construct("ttyUSB7", t, 2, ok)
    \/ \E c \in Capacities : Start(c, "None")
    \/ (\E n \in Counts : ReadB(n)) /\ UNCHANGED histVars
    \/ ReadL
    \/ \E b \in BOOLEAN : ClearBuffer(b)
    \/ TkStore /\ UNCHANGED histVars
    \/ (\E i \in 1..Len(readers), d \in Chunks : DataReceived(i, d))
       /\ UNCHANGED histVars

SpecBuffer == InitStarted /\ [][NextBuffer]_vars

\* the bytes of a sequence of chunks, of those the flags keep
RECURSIVE Kept(_, _)
Kept(chunks, flags) ==
    IF chunks = <<>> \/ flags = <<>> THEN <<>>
    ELSE (IF Head(flags) THEN Head(chunks) ELSE <<>>) \o Kept(Tail(chunks), Tail(flags))

RECURSIVE Total(_)
Total(chunks) == IF chunks = <<>> THEN 0 ELSE Len(Head(chunks)) + Total(Tail(chunks))

\* Chunks arrive and readB() takes bytes, with the history of both kept:
\* every chunk as data_received got it, whether readStoreBuffer kept it, and
\* every byte readB returned.
NextFifo ==
    \/ /\ \E i \in 1..Len(readers), d \in FifoChunks :
            /\ Total(arrivals) + Len(d) <= MaxHist
            /\ DataReceived(i, d)
            /\ arrivals' = Append(arrivals, d)
       /\ UNCHANGED <<verdicts, returned>>
    \/ /\ TkStore
       /\ verdicts' = Append(verdicts, content' # content)
       /\ UNCHANGED <<arrivals, returned>>
    \/ /\ \E n \in Counts : ReadB(n)
       /\ returned' = returned \o (IF ret'.kind = "bytes" THEN ret'.val ELSE <<>>)
       /\ UNCHANGED <<arrivals, verdicts>>
    \/ \E c \in Capacities, h \in Handlers : Start(c, h)

SpecFifo == InitStarted /\ [][NextFifo]_vars

\* serPort(name, command, question, answer, final) called by the application
\* on its own: it touches nothing of sPort
SerPortCall(name, devs, namedOpens, q) ==
    /\ fg = <<>>
    /\ call' = [op |-> "serPort", arg |-> <<name, devs, q>>]
    /\ ret' = SerPortCode(name, devs, namedOpens, q)
    /\ sent' = <<>>
    /\ invoked' = <<>>
    /\ UNCHANGED <<bufVars, linkVars, queue, fg, histVars>>

\* The opening of a port: serPort is called with "Auto" on every list of
\* ports, and with a name, under every choice of its optional arguments.
\* The function keeps no state, so one call is followed from the start of
\* the program.
NextOpen ==
    \/ /\ call.op = "none"
       /\ \E devs \in DevLists, q \in Probes : SerPortCall("Auto", devs, TRUE, q)
    \/ /\ call.op = "none"
       /\ \E name \in Names \ {"Auto"}, namedOpens \in BOOLEAN, q \in Probes :
             SerPortCall(name, <<>>, namedOpens, q)

SpecOpen == Init /\ [][NextOpen]_vars

\* ---------------------------------------- the buffer's calls, step by step
\* Each call that assigns Buffer.content reads the buffer first and assigns
\* later; here the two are separate steps of the foreground, and the reader
\* threads run between them.  While the foreground is in a call, fg is
\* <<op, args, the result computed from what was read>>.
InCall == fg # <<>> /\ fg[1] \in {"readB", "readL", "clearBuffer", "readStoreBuffer"}

\* readB(bytes) up to the evaluation of the two slices
ReadBTake(n) ==
    /\ CanCall
    /\ fg' = <<"readB", <<n>>, ReadBCode(content, n)>>
    /\ UNCHANGED <<bufVars, linkVars, queue, obsVars, histVars>>

\* readL() up to the evaluation of the slices
ReadLTake ==
    /\ CanCall
    /\ fg' = <<"readL", <<>>, ReadLCode(content)>>
    /\ UNCHANGED <<bufVars, linkVars, queue, obsVars, histVars>>

\* clearBuffer(clearLine) up to the evaluation of the slice: flush_events()
\* has run the pending callbacks
ClearTake(clearLine) ==
    /\ CanCall
    /\ content' = Pump(content, queue, size)
    /\ queue' = <<>>
    /\ invoked' = PumpHandle(handleData, content, queue, size)
    /\ fg' = <<"clearBuffer", <<clearLine>>,
               [content |-> ClearCode(content', clearLine), ret |-> NoneVal]>>
    /\ UNCHANGED <<size, terminator, handleData, linkVars, call, ret, sent,
                   histVars>>

\* readStoreBuffer(data), run by Tk, up to the evaluation of content + data
StoreTake ==
    /\ fg = <<>>
    /\ queue # <<>>
    /\ queue' = Tail(queue)
    /\ fg' = <<"readStoreBuffer", <<Head(queue)>>,
               [content |-> Store(content, Head(queue), size), ret |-> NoneVal]>>
    /\ UNCHANGED <<bufVars, linkVars, obsVars, histVars>>

\* the assignment to Buffer.content and what follows it in the call
Put ==
    /\ InCall
    /\ content' = fg[3].content
    /\ ret' = fg[3].ret
    /\ call' = [op |-> fg[1], arg |-> fg[2]]
    /\ sent' = <<>>
    /\ invoked' = IF fg[1] = "readStoreBuffer"
                  THEN <<Invocation(handleData, content')>>
                  ELSE IF fg[1] = "clearBuffer" THEN invoked ELSE <<>>
    /\ fg' = <<>>
    /\ UNCHANGED <<size, terminator, handleData, linkVars, queue, histVars>>

\* the chunks the transport delivers here: "a" and "\n"
RaceChunks == {<<97>>, <<LF>>}

\* The buffer with its calls in two steps each and the reader thread free
\* to run at any point.
NextRace ==
    \/ \E n \in 1..2 : ReadBTake(n)
    \/ ReadLTake
    \/ \E b \in BOOLEAN : ClearTake(b)
    \/ StoreTake
    \/ Put
    \/ (\E i \in 1..Len(readers), d \in RaceChunks : DataReceived(i, d))
       /\ UNCHANGED histVars

SpecRace == InitStarted /\ [][NextRace]_vars

\* ------------------------------------------------------------------ claims
\* the index (from 1) of the first and of the last byte t of buf, 0 when none
FirstOf(buf, t) ==
    LET hits == {i \in 1..Len(buf) : buf[i] = t}
    IN  IF hits = {} THEN 0 ELSE CHOOSE i \in hits : \A j \in hits : i <= j

LastOf(buf, t) ==
    LET hits == {i \in 1..Len(buf) : buf[i] = t}
    IN  IF hits = {} THEN 0 ELSE CHOOSE i \in hits : \A j \in hits : i >= j

\* C1: in every reachable state the buffer is no longer than the capacity
\* start() configured last.
C1_LengthWithinCapacity == Len(content) <= size

\* C2: readStoreBuffer appends the whole chunk when it fits and leaves the
\* buffer as it was otherwise, never a part of the chunk; of two chunks
\* handed over in order, the first fitting and the second not, the buffer
\* ends as the old content plus the first.
C2_AllOrNothing ==
    /\ [][TkStore =>
            LET B == content
                C == Head(queue)
            IN  content' = IF Len(B) + Len(C) <= size THEN B \o C ELSE B]_vars
    /\ [](\A c1 \in FifoChunks, c2 \in FifoChunks :
            (/\ Len(content) + Len(c1) <= size
             /\ Len(content) + Len(c1) + Len(c2) > size)
            => Pump(content, <<c1, c2>>, size) = content \o c1)

\* a chunk was kept and the next one, which did not fit, was dropped whole
C2_Witness ==
    /\ call.op = "readStoreBuffer"
    /\ Len(verdicts) >= 2
    /\ verdicts[Len(verdicts) - 1]
    /\ ~verdicts[Len(verdicts)]
    /\ content # <<>>
    /\ Len(content) < size
    /\ Len(content) + Len(call.arg[1]) > size

\* C3: readB(n) on a buffer of fewer than n bytes returns "not enough data"
\* and leaves the buffer as it is; called again with nothing stored in
\* between it returns the same and the buffer does not shrink.
C3_ShortReadKeepsBuffer ==
    [][\A n \in Counts :
         /\ (ReadB(n) /\ Len(content) < n)
              => (ret' = NotEnoughData /\ content' = content)
         /\ (ReadB(n) /\ call = [op |-> "readB", arg |-> <<n>>]
                      /\ ret = NotEnoughData)
              => (ret' = NotEnoughData /\ Len(content') >= Len(content))]_vars

\* readB asked for more than the bytes the buffer holds
C3_Witness ==
    /\ call.op = "readB"
    /\ ret = NotEnoughData
    /\ content # <<>>
    /\ Len(content) < call.arg[1]

\* C4: readB(n) on a buffer of at least n bytes returns its first n bytes and
\* removes them, and the bytes readB returned so far followed by the buffer
\* are the chunks that were kept, in the order they arrived.
C4_Fifo ==
    /\ [](returned \o content = Kept(arrivals, verdicts))
    /\ [][\A n \in Counts :
            (ReadB(n) /\ Len(content) >= n)
            => /\ ret' = BytesVal(SubSeq(content, 1, n))
               /\ content' = SubSeq(content, n + 1, Len(content))]_vars

\* a second readB returned bytes, after a chunk was dropped, and left some
C4_Witness ==
    /\ call.op = "readB"
    /\ ret.kind = "bytes"
    /\ ret.val # <<>>
    /\ Len(returned) > Len(ret.val)
    /\ content # <<>>
    /\ \E k \in 1..Len(verdicts) : ~verdicts[k]

\* C5: readL splits on the configured terminator: with no terminator in
\* the buffer it returns "not enough data" and leaves the buffer, and
\* otherwise it cuts the line at the first terminator.
C5_SplitsOnConfigured ==
    [][ReadL =>
         LET i == FirstOf(content, terminator)
         IN  IF i = 0
             THEN ret' = NotEnoughData /\ content' = content
             ELSE ret' # NotEnoughData /\ content' = Slice(content, i, Len(content))]_vars

\* C6: with a terminator in the buffer readL removes the bytes up to and
\* including the first terminator, whether they decode or not, and returns
\* the decoded bytes before it, or the "isn't a string" value.
C6_ConsumesThroughTerminator ==
    [][(ReadL /\ FirstOf(content, terminator) > 0) =>
         LET i == FirstOf(content, terminator)
             d == Decode(Slice(content, 0, i - 1))
         IN  /\ content' = Slice(content, i, Len(content))
             /\ ret' = IF d.ok THEN TextVal(d.text) ELSE NotAString]_vars

\* What readL does hold to, whatever terminator is configured: it consumes
\* through the first "\n" whether the bytes before it decode or not.
ReadLOnLineFeed ==
    [][ReadL =>
         LET i == FirstOf(content, LF)
             d == Decode(Slice(content, 0, i - 1))
         IN  IF i = 0
             THEN ret' = NotEnoughData /\ content' = content
             ELSE /\ content' = Slice(content, i, Len(content))
                  /\ ret' = IF d.ok THEN TextVal(d.text) ELSE NotAString]_vars

\* C7: clearBuffer(True) leaves the bytes after the last terminator of the
\* buffer, and the buffer as it is when it holds no terminator;
\* clearBuffer(False) leaves it empty.  (The buffer meant is the one the
\* flush of the pending callbacks leaves.)
C7_ClearToLastLine ==
    [][\A b \in BOOLEAN :
         ClearBuffer(b) =>
           LET B == Pump(content, queue, size)
               i == LastOf(B, terminator)
           IN  content' = IF b THEN (IF i = 0 THEN B ELSE Slice(B, i, Len(B)))
                          ELSE <<>>]_vars

\* What clearBuffer does hold to: it cuts after the last "\n".
ClearOnLineFeed ==
    [][\A b \in BOOLEAN :
         ClearBuffer(b) =>
           LET B == Pump(content, queue, size)
               i == LastOf(B, LF)
           IN  content' = IF b THEN (IF i = 0 THEN B ELSE Slice(B, i, Len(B)))
                          ELSE <<>>]_vars

\* C8: write and writeL called while Buffer.disconnected is set hand nothing
\* to port.write, raise nothing, return at once and leave the buffer, the
\* port and the flag as they are.
C8_WriteWhenDisconnected ==
    [][\A w \in WriteArgs :
         (WriteCheck(w[1], w[2]) /\ disconnected)
         => /\ sent' = <<>>
            /\ ret' = NoneVal
            /\ fg' = <<>>
            /\ call' = [op |-> w[1], arg |-> <<w[2]>>]
            /\ UNCHANGED <<content, port, disconnected>>]_vars

\* a write was called on the disconnected link and did nothing
C8_Witness ==
    /\ disconnected
    /\ call.op \in {"write", "writeL"}
    /\ sent = <<>>
    /\ fg = <<>>
    /\ \E i \in 1..Len(readers) : readers[i].pc = "done"

\* a reopen() started a reader after reader i was started
Reconnected(i) ==
    \E j \in (i + 1)..Len(readers) : readers[j].origin = "reopen"

\* C9: once the handling of a connection loss is over, and until a reopen()
\* succeeds, disconnected() returns True.
C9_LossSetsDisconnected ==
    \A i \in 1..Len(readers) :
        (readers[i].pc \in {"done", "raised"} /\ ~Reconnected(i)) => disconnected

\* the link as a successful reconnect leaves it
Rebound ==
    /\ port.by = "reopen"
    /\ ~disconnected
    /\ \E j \in 1..Len(readers) :
         readers[j].serial = port /\ readers[j].pc \in {"start", "run"}

\* C10: a reopen() that finds at least 2 ports and opens ports[1] rebinds the
\* port, starts a reader on it and leaves the link connected, be it the call
\* made in connection_lost or one made by the timer; and connection_lost
\* does not set the flag again once that has happened.
C10_ReconnectRestoresLink ==
    [][/\ \A n \in PortCounts :
            (/\ n > 1
             /\ \/ TkReopen(n, TRUE)
                \/ \E i \in 1..Len(readers) : ConnectionLost(i, n, TRUE))
            => Rebound'
       /\ \A i \in 1..Len(readers) : SetDisconnected(i) => ~Reconnected(i)]_vars

\* reader i saw the connection fail, its connection_lost is past the call of
\* reopen(), and no reopen() has started a reader since
Lost(i) ==
    /\ readers[i].pc \in {"flag", "done", "raised"}
    /\ ~Reconnected(i)

\* C11: in every state where the connection was lost and no reopen() has
\* succeeded yet, a reopen() is pending on the Tk timer: the loop ends with a
\* success only, not with an attempt that failed, found fewer than 2 ports
\* or raised.
C11_RetryPending ==
    \A i \in 1..Len(readers) : Lost(i) => timers > 0

\* C12: a write or writeL called while the connection is lost and not yet
\* reopened sees the flag set and returns without going on to port.write,
\* wherever the reader thread is in connection_lost.
C12_WriteWhileLost ==
    [][\A w \in WriteArgs :
         (/\ WriteCheck(w[1], w[2])
          /\ \E i \in 1..Len(readers) : Lost(i))
         => (fg' = <<>> /\ sent' = <<>>)]_vars

\* the ports a call of serPort tried to open, in order
OpenedBy(io) == SelectSeq(io, LAMBDA e : e[1] = "open")

\* the least of a non-empty set of port numbers
Lowest(S) == CHOOSE k \in S : \A j \in S : k <= j

\* C13 as claimed: serPort("Auto", ...) raises SerialDisconnect when fewer
\* than 2 ports are listed or when a question is given and no candidate
\* replies answer; otherwise it returns the lowest candidate of index >= 1
\* that opened and (a question given) replied answer, opens none after it
\* and never opens ports[0].
C13_AutoOpenAsClaimed ==
    (call.op = "serPort" /\ call.arg[1] = "Auto") =>
        LET devs == call.arg[2]
            q == call.arg[3]
            n == Len(devs)
            Opened(k) == devs[k + 1].state # "noopen"
            Answered(k) ==
                \/ q.question = "None"
                \/ devs[k + 1].state = "ok" /\ devs[k + 1].reply = q.answer
            Good == {k \in 1..(n - 1) : Opened(k) /\ Answered(k)}
            opens == OpenedBy(ret.io)
        IN  /\ n < 2 => ret.kind = "SerialDisconnect"
            /\ (/\ q.question # "None"
                /\ \A k \in 1..(n - 1) : devs[k + 1].reply # q.answer)
               => ret.kind = "SerialDisconnect"
            /\ (n >= 2 /\ Good # {})
               => /\ ret.kind = "port"
                  /\ ret.val = <<Lowest(Good)>>
                  /\ opens[Len(opens)] = <<"open", Lowest(Good)>>
            /\ \A j \in 1..Len(opens) : opens[j][2] # 0

\* C13 as the code has it: serPort("Auto", ...) raises SerialDisconnect when
\* fewer than 2 ports are listed, when a candidate it comes to does not open
\* or fails a write or a readline (it does not go on to the next one), or
\* when every candidate opened and none replied answer; otherwise it returns
\* the lowest candidate of index >= 1 that replied answer (ports[1] with no
\* question).  It opens ports[1] up to the candidate it stops at, in order,
\* and no other: never ports[0].
C13_AutoOpen ==
    (call.op = "serPort" /\ call.arg[1] = "Auto") =>
        LET devs == call.arg[2]
            q == call.arg[3]
            n == Len(devs)
            talks == q.command # "None" \/ q.question # "None"
            Fails(k) ==
                \/ devs[k + 1].state = "noopen"
                \/ devs[k + 1].state = "noio" /\ talks
            Match(k) ==
                /\ ~Fails(k)
                /\ q.question = "None" \/ devs[k + 1].reply = q.answer
            Stops == {k \in 1..(n - 1) : Fails(k) \/ Match(k)}
            last == IF Stops = {} THEN n - 1 ELSE Lowest(Stops)
            opens == OpenedBy(ret.io)
        IN  IF n < 2
            THEN ret = Disconnect(<<>>)
            ELSE /\ opens = [j \in 1..last |-> <<"open", j>>]
                 /\ IF Stops = {} \/ Fails(last)
                    THEN ret.kind = "SerialDisconnect"
                    ELSE IF q.final # "None" /\ devs[last + 1].state = "noio"
                    THEN ret.kind = "SerialDisconnect"
                    ELSE ret.kind = "port" /\ ret.val = <<last>>

\* serPort("Auto", ...) with a question passed over ports[1], which replied
\* something else, and returned ports[2], with a third candidate left alone
C13_Witness ==
    /\ call.op = "serPort"
    /\ call.arg[1] = "Auto"
    /\ call.arg[3].question # "None"
    /\ Len(call.arg[2]) = 4
    /\ call.arg[2][2].reply # call.arg[3].answer
    /\ ret.kind = "port"
    /\ ret.val = <<2>>
    /\ OpenedBy(ret.io) = <<<<"open", 1>>, <<"open", 2>>>>

\* C14: every chunk data_received got is handed to readStoreBuffer once, in
\* the order of arrival, and each run of readStoreBuffer calls the
\* registered handleData once, after it appended or discarded the chunk;
\* the call is made on the foreground and not by the reader thread, which
\* can take its next chunk while callbacks are pending.
C14_CallbackPerChunk ==
    /\ [][TkStore =>
            LET B == content
                C == Head(queue)
                fits == Len(B) + Len(C) <= size
            IN  invoked' = <<[fn |-> handleData,
                              len |-> IF fits THEN Len(B) + Len(C)
                                      ELSE Len(B)]>>]_vars
    /\ [](/\ Len(verdicts) + Len(queue) = Len(arrivals)
          /\ \A k \in 1..Len(queue) : queue[k] = arrivals[Len(verdicts) + k])
    /\ [][\A i \in 1..Len(readers), d \in FifoChunks :
            DataReceived(i, d) => UNCHANGED <<invoked, content, fg>>]_vars
    /\ [](\A i \in 1..Len(readers), d \in FifoChunks :
            (readers[i].pc = "run" /\ Len(queue) < MaxQueue)
            => ENABLED DataReceived(i, d))

\* readStoreBuffer discarded a chunk and called the registered function all
\* the same, while the next chunk of the reader thread was already pending
C14_Witness ==
    /\ call.op = "readStoreBuffer"
    /\ ~verdicts[Len(verdicts)]
    /\ handleData = "onData"
    /\ invoked = <<[fn |-> "onData", len |-> Len(content)]>>
    /\ content # <<>>
    /\ queue # <<>>

\* what a call leaves of the buffer buf when nothing runs between its read
\* of the buffer and its assignment
InOneStep(op, args, buf) ==
    IF op = "readB" THEN ReadBCode(buf, args[1]).content
    ELSE IF op = "readL" THEN ReadLCode(buf).content
    ELSE IF op = "clearBuffer" THEN ClearCode(buf, args[1])
    ELSE Store(buf, args[1], size)

\* C15: the buffer changes in steps of the foreground only, and a call that
\* read the buffer assigns to the buffer it read: whatever the reader
\* threads did in between, readB, readL, clearBuffer and readStoreBuffer
\* leave what they leave when run in one step, so no update of the buffer
\* is lost or made twice.
C15_MutationsAtomic ==
    /\ [][Put => content' = InOneStep(fg[1], fg[2], content)]_vars
    /\ [][content' # content => fg' # fg]_vars
    /\ [][\A i \in 1..Len(readers), d \in RaceChunks :
            DataReceived(i, d) => content' = content]_vars

\* clearBuffer has flushed the callbacks and computed its cut, and a chunk
\* has arrived from the reader thread before it assigns the buffer
C15_Witness ==
    /\ InCall
    /\ fg[1] = "clearBuffer"
    /\ queue # <<>>
    /\ content # <<>>
    /\ fg[3].content # content

\* C16: in every state no two running reader threads read the same port,
\* and at most one reopen() is pending on the Tk timer.
C16_OneReaderOneLoop ==
    /\ \A i \in 1..Len(readers), j \in 1..Len(readers) :
           (i # j /\ readers[i].pc = "run" /\ readers[j].pc = "run")
           => readers[i].serial # readers[j].serial
    /\ timers <= 1

\* C17: start() and the reader thread's construction of its protocol object
\* leave Buffer.port and Buffer.terminator as the constructor call of the
\* application, or the reopen(), left them.
C17_ReaderStartKeepsLink ==
    [][/\ \A c \in Capacities, h \in Handlers :
            Start(c, h) => UNCHANGED <<port, terminator>>
       /\ \A i \in 1..Len(readers), n \in PortCounts, ok \in BOOLEAN :
            ReaderFactory(i, n, ok) => UNCHANGED <<port, terminator>>]_vars

====
